---- MODULE Spec2Model ----
(***************************************************************************)
(* Delivery pipeline of chat_forwarder.py: the admission endpoint          *)
(* (forwarder), the bounded SEND_QUEUE, and the single worker thread       *)
(* (worker_loop / send_to_discord) with its 429 retry, pacing and backoff. *)
(*                                                                         *)
(* Durations are integers in milliseconds (0.45 s = 450).  A Python float  *)
(* is a record [k, v]: k = "num" with v in ms, or k = "nan" / "inf" for    *)
(* the non-finite values float() also returns, or k = "none" for None.     *)
(* A URL is the sequence of its "/"-separated segments.  A payload is      *)
(* identified by the number of the admission request that produced it.     *)
(* A string is the sequence of its runs [c, n], n copies of character c,   *)
(* no two neighbouring runs of the same character, so that messages of     *)
(* 1800 characters and more keep their real length.                        *)
(***************************************************************************)
EXTENDS Integers, Sequences, FiniteSets, TLC

\* ---------------------------------------------------------------- bounds
\* admission requests per run, every payload followed in the enq / deq / posts logs
MaxReq == 4
\* admission requests per run of the runs checked for liveness
MaxLive == 3
\* admission requests per run of the long runs, which keep no logs
MaxCycles == 7
\* capacity of SEND_QUEUE: queue.Queue(maxsize=500), scaled down
MaxQueue == 2
\* admission requests per run of the runs that draw senders and messages
MaxFmt == 1
\* the longest messages drawn are this much longer than max_message_length
MaxOver == 2

\* ------------------------------------------------------ program constants
base_spacing == 450
RETRY_FLOOR == 500
DEFAULT_RETRY == 1000
BACKOFF_FIRST == 1000
BACKOFF_MAX == 30000
max_message_length == 1800

\* ------------------------------------------------------------ Python floats
F(ms) == [k |-> "num", v |-> ms]
NaN == [k |-> "nan", v |-> 0]
Inf == [k |-> "inf", v |-> 0]
None == [k |-> "none", v |-> 0]

\* a > b on floats: every comparison with nan is False
FGt(a, b) ==
  IF a.k = "nan" \/ b.k = "nan" THEN FALSE
  ELSE IF a.k = "inf" THEN b.k # "inf"
  ELSE IF b.k = "inf" THEN FALSE
  ELSE a.v > b.v

\* max(a, b): the first argument unless the second compares greater
PyMax(a, b) == IF FGt(b, a) THEN b ELSE a

\* bool(x) for x a float or None
Truthy(x) == ~(x.k = "none" \/ (x.k = "num" /\ x.v = 0))

\* time.sleep(x) raises ValueError on nan and negatives, OverflowError on inf
SleepRaises(x) == x.k \in {"nan", "inf"} \/ x.v < 0

\* header / field texts a response may carry; Absent is a missing header
Absent == "<absent>"
RetryAfterTexts == {Absent, "2", "0.2", "-1", "nan", "inf", "soon"}
BodyRetryTexts == {Absent, "0.2", "2", "soon"}
ResetAfterTexts == {Absent, "2", "0", "-1", "nan", "inf", "soon"}

\* float(text): ok = FALSE when float() raises
PyFloat(t) ==
  CASE t = "2"   -> [ok |-> TRUE, val |-> F(2000)]
    [] t = "0.2" -> [ok |-> TRUE, val |-> F(200)]
    [] t = "-1"  -> [ok |-> TRUE, val |-> F(0 - 1000)]
    [] t = "0"   -> [ok |-> TRUE, val |-> F(0)]
    [] t = "nan" -> [ok |-> TRUE, val |-> NaN]
    [] t = "inf" -> [ok |-> TRUE, val |-> Inf]
    [] OTHER     -> [ok |-> FALSE, val |-> None]

\* ---------------------------------------------------------------- strings
Run(c, n) == [c |-> c, n |-> n]

\* the runs s with neighbouring runs of one character merged, empty runs dropped
RECURSIVE Merge(_)
Merge(s) ==
  IF s = <<>> THEN <<>>
  ELSE IF Head(s).n = 0 THEN Merge(Tail(s))
  ELSE IF Len(s) = 1 THEN s
  ELSE IF s[2].n = 0 THEN Merge(<<Head(s)>> \o Tail(Tail(s)))
  ELSE IF s[2].c = Head(s).c
       THEN Merge(<<Run(Head(s).c, Head(s).n + s[2].n)>> \o Tail(Tail(s)))
  ELSE <<Head(s)>> \o Merge(Tail(s))

\* the runs of a string in their unique form (the argument is evaluated once)
Norm(s) == CHOOSE r \in {Merge(v) : v \in {s}} : TRUE

\* the string of the characters cs, in order
Text(cs) == Norm([i \in 1..Len(cs) |-> Run(cs[i], 1)])

\* len(s)
RECURSIVE PyLen(_)
PyLen(s) == IF s = <<>> THEN 0 ELSE Head(s).n + PyLen(Tail(s))

\* a + b
Concat(a, b) == Norm(a \o b)

\* s[:k], for k >= 0
RECURSIVE Slice(_, _)
Slice(s, k) ==
  IF s = <<>> \/ k <= 0 THEN <<>>
  ELSE IF Head(s).n <= k THEN <<Head(s)>> \o Slice(Tail(s), k - Head(s).n)
  ELSE <<Run(Head(s).c, k)>>

\* s[k:], for k >= 0
RECURSIVE Drop(_, _)
Drop(s, k) ==
  IF s = <<>> \/ k <= 0 THEN s
  ELSE IF Head(s).n <= k THEN Drop(Tail(s), k - Head(s).n)
  ELSE <<Run(Head(s).c, Head(s).n - k)>> \o Tail(s)

\* a replace that leaves the string as it is
ReplaceNothing(s, old, new) == s

\* s.replace(old, new), old and new single characters
Replace(s, old, new) ==
  Norm([i \in 1..Len(s) |-> Run(IF s[i].c = old THEN new ELSE s[i].c, s[i].n)])

\* the characters are tokens; this one stands for the grave accent
Backtick == "<backtick>"
Quote == "'"
Ellipsis == <<Run(".", 3)>>

\* a cut that keeps max_message_length characters before the marker
TruncateAtMax(m) ==
  IF PyLen(m) > max_message_length
  THEN Concat(Slice(m, max_message_length), Ellipsis)
  ELSE m

\* clean_message[:max_message_length - 1] + '...' when the message is too long
Truncate(m) ==
  IF PyLen(m) > max_message_length
  THEN Concat(Slice(m, max_message_length - 1), Ellipsis)
  ELSE m

\* f"{timestamp} [**{clean_sender}**]: `{clean_message}`"
Format(timestamp, sender, message) ==
  LET clean_sender == Replace(sender, Backtick, Quote)
      clean_message == Truncate(Replace(message, Backtick, Quote))
  IN Norm(timestamp \o Text(<<" ", "[", "*", "*">>) \o clean_sender
          \o Text(<<"*", "*", "]", ":", " ", Backtick>>) \o clean_message
          \o Text(<<Backtick>>))

\* datetime.now().strftime("%H:%M")
Timestamps == {Text(<<"1", "2", ":", "3", "0">>)}

\* the senders and messages of the requests
Senders == {Text(<<"B", "o", "b">>), Text(<<"a", Backtick, "b">>)}
EdgeLens == {1} \cup ((max_message_length - 1)..(max_message_length + MaxOver))
Messages ==
  {<<>>, Text(<<"x", Backtick, "y">>), Text(<<Quote, Backtick>>)}
  \cup {<<Run(Backtick, n)>> : n \in EdgeLens}
  \cup {<<Run("a", n), Run(Backtick, k)>> :
          n \in {max_message_length - 1, max_message_length}, k \in 1..MaxOver}

ChatEvent(s, m, t) == [sender |-> s, message |-> m, now |-> t]

\* the requests of the runs that follow the pipeline: one sender, one message
PlainEvents == {ChatEvent(Text(<<"B", "o", "b">>), Text(<<"H", "e", "l", "l", "o">>), t) :
                  t \in Timestamps}
\* the requests of the runs that follow the formatting
AllEvents == {ChatEvent(s, m, t) : s \in Senders, m \in Messages, t \in Timestamps}
NoText == <<Run("<none>", 0)>>

\* ------------------------------------------------------------------- URLs
EmptyUrl == <<>>
PrefixDiscord == <<"https:", "", "discord.com", "api", "webhooks">>
PrefixDiscordApp == <<"https:", "", "discordapp.com", "api", "webhooks">>
WEBHOOK_PREFIXES == {PrefixDiscord, PrefixDiscordApp}

UrlA == PrefixDiscord \o <<"1", "tokenA">>
UrlB == PrefixDiscordApp \o <<"2", "tokenB">>
UrlOther == <<"https:", "", "example.com", "api", "webhooks", "1">>
UrlNoSlash == PrefixDiscord

\* a prefix test that forgets the "/" ending the prefix
StartsWithNoSlash(u, p) == Len(u) >= Len(p) /\ SubSeq(u, 1, Len(p)) = p

\* url.startswith(prefix), the prefix ending in "/"
StartsWith(u, p) == Len(u) > Len(p) /\ SubSeq(u, 1, Len(p)) = p

is_valid_webhook_prefix(u) == \E p \in WEBHOOK_PREFIXES : StartsWith(u, p)

ConfigUrls == {EmptyUrl, UrlNoSlash, UrlA}
PromptUrls == {UrlA, UrlB}
Unset == <<"<None>">>

\* -------------------------------------------------------------- responses
Statuses == {204, 304, 429, 500}
TransportError == 0
BodyKinds == {"notjson", "list", "object"}

\* no POST is in flight
NoWire == [p |-> 0, to |-> EmptyUrl, now |-> EmptyUrl]

\* no answer is being slept on
NoAnswer == [header |-> Absent, bodyKind |-> "none", bodyRetry |-> Absent, reset |-> Absent]

VARIABLES
  cache,       \* WEBHOOK_URL_CACHE
  configFile,  \* the discord_webhook_url load_config() finds on disk
  queue,       \* SEND_QUEUE
  unfinished,  \* SEND_QUEUE.unfinished_tasks
  running,     \* WORKER_RUNNING
  pc,          \* position of the worker thread
  content,     \* worker_loop: content (0 when it holds none)
  url,         \* worker_loop: url
  backoff,     \* worker_loop: backoff
  attempt,     \* POSTs issued for content so far
  first,       \* status of the answer to the first POST of this cycle (-1: none yet)
  last,        \* status of the latest answer of this cycle (-1: none yet)
  retry_after, \* send_to_discord: retry_after (None outside a 429 answer)
  slept,       \* duration of the sleep in progress, or of the latest one
  wire,        \* the POST in flight: its payload, the URL it goes to, and the
               \* destination get_webhook_url() would return as it starts
  answer,      \* what the answer the worker sleeps on carried: Retry-After and the
               \* body of a 429, X-RateLimit-Reset-After of an answer that did not raise
  nReq,        \* admission requests handled so far
  resp,        \* response of the latest admission request
  event,       \* the latest admission request: its sender, message and clock, the
               \* destination it resolved, and the content it formatted
  enq,         \* payloads enqueued, in order
  deq,         \* payloads dequeued, in order
  posts,       \* every outbound POST, in order: its payload, and the status that
               \* answered the POST before it in the same cycle (-1 for a first POST)
  fails,       \* consecutive payload cycles that ended without a 2xx answer
  raised,      \* consecutive payload cycles that ended in the except clause
  keep,        \* the records this run keeps, fixed from the first state on:
               \* "answers" (answer), "routes" (event.dest, wire.now), "stops" (afterStop)
  stopAt,      \* where the worker was at the latest write of False to WORKER_RUNNING
  afterStop    \* payloads dequeued since the first write of False that found the
               \* worker in its loop (-1: no such write yet)

vars == <<cache, configFile, queue, unfinished, running, pc, content, url, backoff,
          attempt, first, last, retry_after, slept, answer, nReq, resp, event, enq, deq,
          posts, fails, raised, stopAt, afterStop, wire, keep>>

workerVars == <<pc, content, url, backoff, attempt, first, last, retry_after, slept,
               answer, wire>>
logVars == <<nReq, resp, event, enq, deq, posts, fails, raised>>

\* the state after module initialisation, before main() starts the thread
Setup ==
  /\ cache = Unset
  /\ configFile \in ConfigUrls
  /\ queue = <<>>
  /\ unfinished = 0
  /\ running = FALSE
  /\ pc = "unstarted"
  /\ content = 0
  /\ url = EmptyUrl
  /\ backoff = 0
  /\ attempt = 0
  /\ first = 0 - 1
  /\ last = 0 - 1
  /\ retry_after = None
  /\ slept = 0
  /\ answer = NoAnswer
  /\ wire = NoWire
  /\ nReq = 0
  /\ resp = [id |-> 0, status |-> "none", detail |-> ""]
  /\ event = [sender |-> <<>>, message |-> <<>>, now |-> <<>>, dest |-> Unset,
              content |-> NoText]
  /\ enq = <<>>
  /\ deq = <<>>
  /\ posts = <<>>
  /\ fails = 0
  /\ raised = 0
  /\ stopAt = "never"
  /\ afterStop = 0 - 1

Init == Setup /\ keep = {}

\* the same, in a run that records what each answer carried
InitAnswers == Setup /\ keep = {"answers"}

\* the same, in a run that records destinations and the dequeues after a stop
InitRoutes == Setup /\ keep = {"routes", "stops"}

\* a record of the given kind in the runs that keep it, and `none` in the others
Kept(kind, a, none) == IF kind \in keep THEN a ELSE none

\* get_webhook_url(): the value returned, and the cache after the call
ResolvedUrl == IF cache = Unset THEN configFile ELSE cache

\* a log extended by entry e about payload x, when x is among the first `window`
Log(window, log, x, e) == IF x <= window THEN Append(log, e) ELSE log

\* the entry of the posts log for a POST of payload x
Post(x, before) == [p |-> x, prev |-> before]

\* ------------------------------------------------------------- SEND_QUEUE
\* a put(x) that waits for room: it returns only once the queue has a free slot
PutWaits(q) == Len(q) < MaxQueue

\* put_nowait(x) returns or raises at once, whatever the occupancy
PutNowaitReturns(q) == TRUE

\* a put that stores the entry whatever the occupancy
PutUnbounded(q, x) == [full |-> FALSE, q |-> Append(q, x)]

\* put_nowait(x): Full is raised, and nothing stored, at maxsize entries
PutNowait(q, x) ==
  IF Len(q) >= MaxQueue THEN [full |-> TRUE, q |-> q]
  ELSE [full |-> FALSE, q |-> Append(q, x)]

\* a get() that loses the entry behind the one it hands out
QueueGetSkip(q) == [item |-> Head(q), q |-> IF Len(q) > 1 THEN Tail(Tail(q)) ELSE <<>>]

\* a get() that hands out the newest entry
QueueGetNewest(q) == [item |-> q[Len(q)], q |-> SubSeq(q, 1, Len(q) - 1)]

\* a get() that hands out the oldest entry and leaves it in the queue
QueueGetPeek(q) == [item |-> Head(q), q |-> q]

\* get(): the oldest entry and the queue without it
QueueGet(q) == [item |-> Head(q), q |-> Tail(q)]

\* ---------------------------------------------------- admission endpoint
ErrorNotConfigured ==
  [status |-> "error", detail |-> "Discord webhook not configured correctly."]
ErrorQueueFull == [status |-> "error", detail |-> "Queue full! Message discarded."]
Queued == [status |-> "queued", detail |-> ""]

Reply(id, r) == [id |-> id, status |-> r.status, detail |-> r.detail]

\* GET /webhook: one request, from the resolution of the destination to the reply
forwarder(limit, window, events) ==
  /\ nReq < limit
  /\ \E e \in events :
       LET id == nReq + 1
           u == ResolvedUrl
           text == Format(e.now, e.sender, e.message)
           put == PutNowait(queue, id)
       IN /\ nReq' = id
          /\ cache' = u
          /\ is_valid_webhook_prefix(u) => PutNowaitReturns(queue)
          /\ event' = [sender |-> e.sender, message |-> e.message, now |-> e.now,
                       dest |-> Kept("routes", u, Unset),
                       content |-> IF is_valid_webhook_prefix(u) THEN text ELSE NoText]
          /\ IF ~is_valid_webhook_prefix(u)
             THEN /\ resp' = Reply(id, ErrorNotConfigured)
                  /\ UNCHANGED <<queue, unfinished, enq>>
             ELSE IF put.full
             THEN /\ resp' = Reply(id, ErrorQueueFull)
                  /\ UNCHANGED <<queue, unfinished, enq>>
             ELSE /\ queue' = put.q
                  /\ unfinished' = unfinished + 1
                  /\ enq' = Log(window, enq, id, id)
                  /\ resp' = Reply(id, Queued)
  /\ UNCHANGED <<configFile, running, workerVars, deq, posts, fails, raised, stopAt, afterStop, keep>>

\* save_config(url) succeeding for a URL prompt_for_webhook accepted
save_config ==
  \E u \in PromptUrls :
    /\ is_valid_webhook_prefix(u)
    /\ cache' = u
    /\ configFile' = u
    /\ UNCHANGED <<queue, unfinished, running, workerVars, logVars, stopAt, afterStop, keep>>

\* WORKER_RUNNING = False, written by whoever shuts the worker down once the
\* thread exists (before that the flag is False already)
StopWorker ==
  /\ pc # "unstarted"
  /\ running' = FALSE
  /\ stopAt' = IF pc = "entry" THEN "entry" ELSE "live"
  /\ afterStop' = IF pc # "entry" /\ afterStop < 0
                  THEN Kept("stops", 0, afterStop)
                  ELSE afterStop
  /\ UNCHANGED <<cache, configFile, queue, unfinished, workerVars, logVars, keep>>

\* ------------------------------------------------------- send_to_discord
\* SESSION.post raises before anything is sent when the URL has no scheme
PostRaisesEarly(u) == Len(u) = 0

\* the retry delay read from a 429 answer: Retry-After, else the body, else 1.0
RetryDelay(header, bodyKind, bodyRetry) ==
  LET fromHeader ==
        IF header # Absent /\ PyFloat(header).ok THEN PyFloat(header).val ELSE None
      fromBody ==
        IF bodyKind = "object" /\ bodyRetry # Absent /\ PyFloat(bodyRetry).ok
        THEN PyFloat(bodyRetry).val
        ELSE F(DEFAULT_RETRY)
  IN IF fromHeader.k # "none" THEN fromHeader ELSE fromBody

\* the duration handed to time.sleep before the retry
RetrySleep(delay) == PyMax(delay, F(RETRY_FLOOR))

\* resp.raise_for_status() raises on 4xx and 5xx
RaisesForStatus(st) == 400 <= st /\ st < 600

\* the value send_to_discord returns after an answer that did not raise
ResetAfter(text) ==
  IF text # Absent /\ PyFloat(text).ok THEN PyFloat(text).val ELSE None

\* ------------------------------------------------------------ worker_loop
\* spacing slept after send_to_discord returned reset_after
Spacing(reset_after) ==
  IF Truthy(reset_after) THEN PyMax(F(base_spacing), reset_after) ELSE F(base_spacing)

\* backoff = min((backoff * 2) if backoff else 1.0, 30.0)
NextBackoff(b) ==
  LET grown == IF b # 0 THEN b * 2 ELSE BACKOFF_FIRST
  IN IF grown < BACKOFF_MAX THEN grown ELSE BACKOFF_MAX

Is2xx(st) == 200 <= st /\ st < 300

\* the cycle's answer is final: count it
Counted(st) == fails' = IF Is2xx(st) THEN 0 ELSE fails + 1

\* except Exception: grow backoff and sleep it
Failure(st) ==
  /\ backoff' = NextBackoff(backoff)
  /\ slept' = NextBackoff(backoff)
  /\ pc' = "BACKOFF"
  /\ last' = st
  /\ answer' = NoAnswer
  /\ Counted(st)
  /\ raised' = raised + 1

\* send_to_discord returned float(hint) or None: sleep the spacing (backoff is
\* reset after the sleep)
Success(st, hint) ==
  IF SleepRaises(Spacing(ResetAfter(hint)))
  THEN Failure(st)
  ELSE /\ slept' = Spacing(ResetAfter(hint)).v
       /\ pc' = "PACING"
       /\ last' = st
       /\ answer' = Kept("answers", [NoAnswer EXCEPT !.reset = hint], NoAnswer)
       /\ Counted(st)
       /\ UNCHANGED <<backoff, raised>>

\* an answer that is not the 429 of a first attempt: raise_for_status, then the hint
Settle(st) ==
  IF st = TransportError \/ RaisesForStatus(st)
  THEN Failure(st)
  ELSE \E hint \in ResetAfterTexts : Success(st, hint)

\* threading.Thread(target=worker_loop).start()
ThreadStart ==
  /\ pc = "unstarted"
  /\ pc' = "entry"
  /\ UNCHANGED <<cache, configFile, queue, unfinished, running, content, url, backoff,
                 attempt, first, last, retry_after, slept, answer, wire, logVars, stopAt,
                 afterStop, keep>>

\* WORKER_RUNNING = True; backoff = 0.0
WorkerEntry ==
  /\ pc = "entry"
  /\ running' = TRUE
  /\ backoff' = 0
  /\ pc' = "loop"
  /\ UNCHANGED <<cache, configFile, queue, unfinished, content, url,
                 attempt, first, last, retry_after, slept, answer, wire, logVars, stopAt,
                 afterStop, keep>>

\* a loop test that never looks at the flag
LoopTestDeaf ==
  /\ pc = "loop"
  /\ pc' = "WAITING"
  /\ UNCHANGED <<cache, configFile, queue, unfinished, running, content, url, backoff,
                 attempt, first, last, retry_after, slept, answer, wire, logVars, stopAt,
                 afterStop, keep>>

\* while WORKER_RUNNING
LoopTest ==
  /\ pc = "loop"
  /\ pc' = IF running THEN "WAITING" ELSE "STOPPED"
  /\ UNCHANGED <<cache, configFile, queue, unfinished, running, content, url, backoff,
                 attempt, first, last, retry_after, slept, answer, wire, logVars, stopAt,
                 afterStop, keep>>

\* content = SEND_QUEUE.get(timeout=0.5) returning a payload
Dequeue(window) ==
  /\ pc = "WAITING"
  /\ queue # <<>>
  /\ content' = QueueGet(queue).item
  /\ queue' = QueueGet(queue).q
  /\ deq' = Log(window, deq, QueueGet(queue).item, QueueGet(queue).item)
  /\ last' = 0 - 1
  /\ afterStop' = IF afterStop >= 0 THEN afterStop + 1 ELSE afterStop
  /\ pc' = "DEQUEUED"
  /\ UNCHANGED <<cache, configFile, unfinished, running, url, backoff, attempt, first,
                 retry_after, slept, answer, wire, nReq, resp, event, enq, posts, fails,
                 raised, stopAt, keep>>

\* a timeout that goes through task_done() like a payload
GetTimeoutDone ==
  /\ pc = "WAITING"
  /\ queue = <<>>
  /\ pc' = "loop"
  /\ unfinished' = unfinished - 1
  /\ UNCHANGED <<cache, configFile, queue, running, content, url, backoff,
                 attempt, first, last, retry_after, slept, answer, wire, logVars, stopAt,
                 afterStop, keep>>

\* queue.Empty after the 0.5 s window: continue
GetTimeout ==
  /\ pc = "WAITING"
  /\ queue = <<>>
  /\ pc' = "loop"
  /\ UNCHANGED <<cache, configFile, queue, unfinished, running, content, url, backoff,
                 attempt, first, last, retry_after, slept, answer, wire, logVars, stopAt,
                 afterStop, keep>>

\* url = get_webhook_url(); the first SESSION.post of send_to_discord
SendFirst(window) ==
  /\ pc = "DEQUEUED"
  /\ cache' = ResolvedUrl
  /\ url' = ResolvedUrl
  /\ IF PostRaisesEarly(ResolvedUrl)
     THEN /\ Failure(TransportError)
          /\ UNCHANGED <<attempt, posts, first, wire>>
     ELSE /\ pc' = "SENDING"
          /\ attempt' = 1
          /\ wire' = [p |-> content, to |-> ResolvedUrl,
                    now |-> Kept("routes", ResolvedUrl, EmptyUrl)]
          /\ posts' = Log(window, posts, content, Post(content, last))
          /\ UNCHANGED <<backoff, slept, answer, first, last, fails, raised>>
  /\ UNCHANGED <<configFile, queue, unfinished, running, content, retry_after, nReq,
                 resp, event, enq, deq, stopAt, afterStop, keep>>

\* the first POST is answered, or fails in transport
FirstAnswer ==
  /\ pc = "SENDING"
  /\ attempt = 1
  /\ wire' = NoWire
  /\ \E st \in Statuses \cup {TransportError} :
       /\ first' = st
       /\ IF st = 429
          THEN \E header \in RetryAfterTexts, bodyKind \in BodyKinds :
               \E bodyRetry \in IF bodyKind = "object" THEN BodyRetryTexts ELSE {Absent} :
                 LET d == RetrySleep(RetryDelay(header, bodyKind, bodyRetry))
                 IN /\ retry_after' = RetryDelay(header, bodyKind, bodyRetry)
                    /\ IF SleepRaises(d)
                       THEN Failure(st)
                       ELSE /\ slept' = d.v
                            /\ pc' = "RATE_LIMITED"
                            /\ last' = st
                            /\ answer' = Kept("answers",
                                               [header |-> header, bodyKind |-> bodyKind,
                                                bodyRetry |-> bodyRetry, reset |-> Absent],
                                               NoAnswer)
                            /\ UNCHANGED <<backoff, fails, raised>>
          ELSE Settle(st) /\ UNCHANGED retry_after
  /\ UNCHANGED <<cache, configFile, queue, unfinished, running, content, url, attempt,
                 nReq, resp, event, enq, deq, posts, stopAt, afterStop, keep>>

\* a retry that asks get_webhook_url() again
RetryDestinationResolved == ResolvedUrl

\* the URL of the second SESSION.post: the url send_to_discord was called with
RetryDestination == url

\* the retry sleep is over: the second SESSION.post
SendRetry(window) ==
  /\ pc = "RATE_LIMITED"
  /\ pc' = "SENDING"
  /\ attempt' = 2
  /\ answer' = NoAnswer
  /\ wire' = [p |-> content, to |-> RetryDestination,
            now |-> Kept("routes", ResolvedUrl, EmptyUrl)]
  /\ posts' = Log(window, posts, content, Post(content, last))
  /\ UNCHANGED <<cache, configFile, queue, unfinished, running, content, url, backoff,
                 first, last, retry_after, slept, nReq, resp, event, enq, deq, fails,
                 raised, stopAt, afterStop, keep>>

\* the retry is answered, or fails in transport
RetryAnswer ==
  /\ pc = "SENDING"
  /\ attempt = 2
  /\ wire' = NoWire
  /\ \E st \in Statuses \cup {TransportError} : Settle(st)
  /\ UNCHANGED <<cache, configFile, queue, unfinished, running, content, url, attempt,
                 first, retry_after, nReq, resp, event, enq, deq, posts, stopAt, afterStop, keep>>

\* finally: SEND_QUEUE.task_done(); the cycle's locals are dead from here on
CycleEnd ==
  /\ unfinished' = unfinished - 1
  /\ content' = 0
  /\ url' = EmptyUrl
  /\ attempt' = 0
  /\ first' = 0 - 1
  /\ retry_after' = None
  /\ answer' = NoAnswer
  /\ pc' = "loop"

\* the pacing sleep is over: backoff = 0.0, then the finally clause
PacingDone ==
  /\ pc = "PACING"
  /\ backoff' = 0
  /\ raised' = 0
  /\ CycleEnd
  /\ UNCHANGED <<cache, configFile, queue, running, last, slept, wire, nReq, resp, event,
                 enq, deq, posts, fails, stopAt, afterStop, keep>>

\* a failure path that puts the payload back for another cycle
BackoffDoneRequeue ==
  /\ pc = "BACKOFF"
  /\ queue' = Append(queue, content)
  /\ CycleEnd
  /\ UNCHANGED <<cache, configFile, running, backoff, last, slept, wire, logVars, stopAt,
                 afterStop, keep>>

\* the backoff sleep is over: the finally clause
BackoffDone ==
  /\ pc = "BACKOFF"
  /\ CycleEnd
  /\ UNCHANGED <<cache, configFile, queue, running, backoff, last, slept, wire, logVars,
                 stopAt, afterStop, keep>>

Worker(window) ==
  \/ WorkerEntry
  \/ LoopTest
  \/ Dequeue(window)
  \/ GetTimeout
  \/ SendFirst(window)
  \/ FirstAnswer
  \/ SendRetry(window)
  \/ RetryAnswer
  \/ PacingDone
  \/ BackoffDone

\* a run of at most `limit` requests that logs the first `window` payloads
Step(limit, window, events) ==
  \/ forwarder(limit, window, events)
  \/ save_config
  \/ StopWorker
  \/ ThreadStart
  \/ Worker(window)

Next == Step(MaxReq, MaxReq, PlainEvents)
LongNext == Step(MaxCycles, 0, PlainEvents)

Spec == Init /\ [][Next]_vars

\* long runs: enough payload cycles for backoff to reach its cap
LongSpec == Init /\ [][LongNext]_vars

\* the worker thread is scheduled, and every send and sleep ends
LiveNext == Step(MaxLive, MaxLive, PlainEvents)
FairSpec == Init /\ [][LiveNext]_vars /\ WF_vars(Worker(MaxLive))

\* short runs whose requests carry every sender and message
FormatNext == Step(MaxFmt, MaxFmt, AllEvents)
FormatSpec == Init /\ [][FormatNext]_vars

\* runs that record what each answer carried, and keep no logs
AnswerNext == Step(MaxLive, 0, PlainEvents)
AnswerSpec == InitAnswers /\ [][AnswerNext]_vars

\* runs that record destinations and the dequeues after a stop
RouteNext == Step(MaxLive, MaxLive, PlainEvents)
RouteSpec == InitRoutes /\ [][RouteNext]_vars

\* ------------------------------------------------------------------ claims
Range(seq) == {seq[i] : i \in 1..Len(seq)}
Count(seq, x) == Cardinality({i \in 1..Len(seq) : seq[i] = x})
IsPrefix(a, b) == Len(a) <= Len(b) /\ a = SubSeq(b, 1, Len(a))

\* the destinations of the model that start with an accepted webhook prefix
AcceptedUrls == {UrlA, UrlB}

\* payloads of the POSTs, in order
PostedPayloads == [i \in 1..Len(posts) |-> posts[i].p]
PostsOf(x) == Cardinality({i \in 1..Len(posts) : posts[i].p = x})

\* payloads in the order of their first POST
FirstSends ==
  LET firstAt == {i \in 1..Len(posts) : \A j \in 1..(i - 1) : posts[j].p # posts[i].p}
      Pick[k \in 0..Len(posts)] ==
        IF k = 0 THEN <<>>
        ELSE IF k \in firstAt THEN Append(Pick[k - 1], posts[k].p) ELSE Pick[k - 1]
  IN Pick[Len(posts)]

\* C1: payloads are dequeued, and first sent, in exactly the order in which they
\* were enqueued: the Nth payload enqueued is the Nth dequeued and the Nth sent.
C1_Fifo == IsPrefix(deq, enq) /\ IsPrefix(FirstSends, deq)

\* three payloads went through, enqueued around a rejected request and around
\* dequeues, one of them sent twice
C1_Witness ==
  /\ Len(enq) = 3
  /\ enq # <<1, 2, 3>>
  /\ FirstSends = enq
  /\ Len(posts) > 3

\* an admission request is answered in this step
Admitted == nReq' = nReq + 1

\* C2: a request with a valid destination that meets a full channel is answered
\* "Queue full! Message discarded." in that same step, leaves the channel as it
\* was, and its payload is never sent later.
C2_FullRejected ==
  /\ [][(Admitted /\ ResolvedUrl \in AcceptedUrls /\ Len(queue) = MaxQueue)
          => /\ resp' = [id |-> nReq', status |-> "error",
                         detail |-> "Queue full! Message discarded."]
             /\ queue' = queue
             /\ enq' = enq
             /\ posts' = posts]_vars
  /\ [](\A x \in (Range(queue) \cup {content} \cup Range(PostedPayloads)) \ {0} :
          x \in Range(enq))

\* a request was turned away by a full channel, and payloads were sent after it
C2_Witness ==
  /\ resp.detail = "Queue full! Message discarded."
  /\ resp.id \notin Range(enq)
  /\ \E x \in Range(PostedPayloads) : x < resp.id
  /\ pc = "STOPPED"
  /\ queue = <<>>

\* C3: while the resolved destination starts with no accepted webhook prefix,
\* every request is answered with status "error", enqueues nothing and causes no
\* outbound call; the destination is checked before the enqueue is attempted.
C3_NotConfigured ==
  /\ [][(Admitted /\ ResolvedUrl \notin AcceptedUrls)
          => /\ resp' = [id |-> nReq', status |-> "error",
                         detail |-> "Discord webhook not configured correctly."]
             /\ UNCHANGED <<queue, unfinished, enq, deq, posts>>]_vars
  /\ []((resp.status = "error" /\ resp.detail # "Queue full! Message discarded.")
          => resp.id \notin Range(enq) \cup Range(queue) \cup Range(PostedPayloads)
                            \cup {content})

\* requests were refused for an unset and empty destination, then for a present
\* but unaccepted one, and the worker ran without anything to send
C3_Witness ==
  /\ resp = [id |-> 2, status |-> "error",
             detail |-> "Discord webhook not configured correctly."]
  /\ cache \in {EmptyUrl, UrlNoSlash}
  /\ pc = "WAITING"
  /\ posts = <<>>
  /\ queue = <<>>

\* the worker thread is in its loop and has not been told to stop
WorkerRunning == running /\ pc \notin {"unstarted", "entry", "STOPPED"}

\* C4: with a valid destination and a channel that is not full a request is
\* answered "queued" and its payload enqueued; with the worker running the payload
\* is eventually sent; and when the first POST is answered 2xx it stays the only
\* POST made for that payload.
C4_QueuedThenSent ==
  /\ [][(Admitted /\ ResolvedUrl \in AcceptedUrls /\ Len(queue) < MaxQueue)
          => /\ resp' = [id |-> nReq', status |-> "queued", detail |-> ""]
             /\ queue' = Append(queue, nReq')]_vars
  /\ \A x \in 1..MaxReq :
       (x \in Range(queue) /\ WorkerRunning)
         ~> (x \in Range(PostedPayloads) \/ ~running)
  /\ []((content # 0 /\ first >= 200 /\ first < 300) => PostsOf(content) = 1)
  /\ [][posts' # posts
          => /\ posts' = Append(posts, [p |-> content, prev |-> last])
             /\ content # 0
             /\ ~(first >= 200 /\ first < 300)]_vars

\* the latest request was answered "queued", and its payload was sent once and
\* answered 204 at the first attempt
C4_Witness ==
  /\ resp.status = "queued"
  /\ content = resp.id
  /\ pc = "PACING"
  /\ first = 204
  /\ PostsOf(content) = 1

\* min(2^(n-1), 30) seconds, for n >= 1
Schedule(n) == IF n >= 6 THEN 30000 ELSE 1000 * (2 ^ (n - 1))

\* the cycle's outcome is decided and the worker sleeps on it
Sleeping == pc \in {"PACING", "BACKOFF"}

\* C5: a 429 answer to the first POST is followed by a sleep of at least
\* max(retry_delay, 0.5) s and then by exactly one retry; a retry answered 429,
\* another non-2xx status or a transport error is a final failure, and there is
\* no third attempt.
C5_OneRetry ==
  /\ pc = "RATE_LIMITED"
       => /\ slept >= 500
          /\ retry_after.k = "num" => slept >= retry_after.v
  /\ (first = 429 /\ Sleeping) => attempt = 2
  /\ (attempt = 2 /\ Sleeping /\ ~(last >= 200 /\ last < 300)) => pc = "BACKOFF"
  /\ attempt <= 2
  /\ \A x \in 1..MaxReq : PostsOf(x) <= 2

\* the sleep before the retry, and the cycles with a retry, as far as the code
\* goes: a retry is made unless time.sleep refuses the delay, and a retry that
\* raises is final
RetryAsCoded ==
  /\ pc = "RATE_LIMITED"
       => /\ slept >= 500
          /\ retry_after.k = "num" => slept >= retry_after.v
  /\ (first = 429 /\ Sleeping /\ attempt # 2) => retry_after.k \in {"nan", "inf"}
  /\ (attempt = 2 /\ Sleeping /\ (last = 0 \/ last >= 400)) => pc = "BACKOFF"
  /\ attempt <= 2

\* C6: after N consecutive failed payload cycles the backoff sleep is
\* min(2^(N-1), 30) s (1, 2, 4, 8, 16, 30, 30, ...), however many idle dequeue
\* timeouts lie in between; after a successful send backoff is 0.
C6_BackoffSchedule ==
  /\ (fails >= 1 /\ Sleeping) => (pc = "BACKOFF" /\ slept = Schedule(fails))
  /\ (last >= 200 /\ last < 300 /\ pc \in {"loop", "WAITING", "STOPPED"}) => backoff = 0

\* the schedule over the cycles the code itself ends in its except clause
ScheduleAsCoded ==
  /\ backoff = IF raised = 0 THEN 0 ELSE Schedule(raised)
  /\ pc = "BACKOFF" => (raised >= 1 /\ slept = backoff)

\* the cap was reached twice in a row
ScheduleWitness == pc = "BACKOFF" /\ raised = 7 /\ slept = 30000

\* C7: a payload is dequeued at most once, is never put back into the channel
\* after a failed send, and is POSTed at most twice, the second time only after
\* a 429 answer to the first.
C7_AtMostOnce ==
  \A x \in 1..MaxReq :
    /\ Count(deq, x) <= 1
    /\ x \in Range(deq) => x \notin Range(queue)
    /\ PostsOf(x) <= 2
    /\ \A i, j \in 1..Len(posts) :
         (i < j /\ posts[i].p = x /\ posts[j].p = x)
           => (posts[i].prev = 0 - 1 /\ posts[j].prev = 429)

\* a payload failed after its retry and was dropped; the next one is in hand
C7_Witness ==
  /\ Len(deq) >= 2
  /\ PostsOf(deq[1]) = 2
  /\ pc = "DEQUEUED"
  /\ fails >= 1
  /\ queue = <<>>

\* the answer the destination's validity and the channel's occupancy call for
Answer(dest, len) ==
  IF dest \notin AcceptedUrls
  THEN [status |-> "error", detail |-> "Discord webhook not configured correctly."]
  ELSE IF len >= MaxQueue
  THEN [status |-> "error", detail |-> "Queue full! Message discarded."]
  ELSE [status |-> "queued", detail |-> ""]

\* C8: in every state of the worker (WAITING, SENDING, the retry sleep, PACING,
\* BACKOFF, STOPPED) an admission request completes in one step, and its answer
\* depends on the destination's validity and the channel's occupancy alone.
C8_AdmissionNeverWaits ==
  /\ [](nReq < MaxReq => ENABLED forwarder(MaxReq, MaxReq, PlainEvents))
  /\ [][Admitted
          => /\ resp'.status = Answer(ResolvedUrl, Len(queue)).status
             /\ resp'.detail = Answer(ResolvedUrl, Len(queue)).detail
             /\ UNCHANGED <<pc, content, backoff, attempt, slept, running>>]_vars

\* a payload was admitted into the last free slot while the worker slept off a
\* failure of the payload before it
C8_Witness ==
  /\ pc = "BACKOFF"
  /\ Len(queue) = MaxQueue
  /\ resp = [id |-> queue[MaxQueue], status |-> "queued", detail |-> ""]
  /\ content # 0
  /\ Len(enq) = MaxQueue + 1

\* C9: whenever WORKER_RUNNING is set to False during the life of the worker
\* thread, the worker eventually reaches STOPPED.
C9_StopStops == (stopAt # "never") ~> (pc = "STOPPED")

\* a stop written once the worker is in its loop does stop it
StopInsideLoop == (stopAt = "live") ~> (pc = "STOPPED")

\* C10: no failure inside one worker iteration (transport error, timeout,
\* non-2xx status, failed 429 retry) ends the loop: the worker applies backoff
\* and goes on; STOPPED is reached only after the flag was set to False.
C10_FailuresStayLocal ==
  /\ (Sleeping /\ ~(last >= 200 /\ last < 300))
       => (pc = "BACKOFF" /\ backoff >= 1000 /\ slept = backoff)
  /\ pc = "STOPPED" => stopAt # "never"

\* the loop as coded: whatever raises ends in the backoff sleep, and STOPPED is
\* reached only after a stop
LoopAsCoded ==
  /\ [](pc = "STOPPED" => stopAt # "never")
  /\ []((Sleeping /\ (last = 0 \/ last >= 400)) => (pc = "BACKOFF" /\ slept = backoff))
  /\ [][(pc = "BACKOFF" /\ pc' # pc) => (pc' = "loop" /\ content' = 0)]_vars
  /\ [][(pc = "loop" /\ pc' # pc /\ running) => pc' = "WAITING"]_vars

\* the latest request got as far as formatting its content
Formatted == event.content # NoText

\* the characters of a payload before the sender: "HH:MM [**"; and between the
\* sender and the message: "**]: " and the opening delimiter
BeforeSender == PyLen(Text(<<"H", "H", ":", "M", "M", " ", "[", "*", "*">>))
BeforeMessage(senderLen) == BeforeSender + senderLen + 6

\* the sender and the message segment of payload p, by position
SenderOf(p, senderLen) == Slice(Drop(p, BeforeSender), senderLen)
SegmentOf(p, senderLen) ==
  Slice(Drop(p, BeforeMessage(senderLen)), PyLen(p) - BeforeMessage(senderLen) - 1)

\* the string with every backtick already turned into a quote
Cleaned(m) == Norm([i \in 1..Len(m) |->
                      Run(IF m[i].c = "<backtick>" THEN "'" ELSE m[i].c, m[i].n)])

\* C11: after backtick replacement, a message of at most 1800 characters is the
\* payload's message segment unchanged; a longer one gives its first 1799
\* characters followed by "...", 1802 characters; the segment never exceeds 1802.
C11_Truncation ==
  Formatted =>
    LET m == Cleaned(event.message)
        seg == SegmentOf(event.content, PyLen(event.sender))
    IN /\ PyLen(m) <= 1800 => seg = m
       /\ PyLen(m) > 1800
            => /\ Slice(seg, 1799) = Slice(m, 1799)
               /\ Drop(seg, 1799) = <<[c |-> ".", n |-> 3]>>
               /\ PyLen(seg) = 1802
       /\ PyLen(seg) <= 1802

\* a message of 1801 characters whose cut falls among backticks was formatted,
\* enqueued, and is being sent
C11_Witness ==
  /\ Formatted
  /\ PyLen(event.message) = 1801
  /\ event.message[Len(event.message)] = [c |-> "<backtick>", n |-> 2]
  /\ resp.status = "queued"
  /\ content = resp.id
  /\ pc = "SENDING"

\* occurrences of character c in s
RECURSIVE CountChar(_, _)
CountChar(s, c) ==
  IF s = <<>> THEN 0
  ELSE (IF Head(s).c = c THEN Head(s).n ELSE 0) + CountChar(Tail(s), c)

\* the string with its backticks and quotes made indistinguishable
Mask(s) == Norm([i \in 1..Len(s) |->
                   Run(IF s[i].c \in {"<backtick>", "'"} THEN "?" ELSE s[i].c, s[i].n)])

\* t is s with each backtick replaced by a quote and nothing else changed
QuotedFrom(t, s) ==
  /\ Mask(t) = Mask(s)
  /\ CountChar(t, "<backtick>") = 0
  /\ CountChar(t, "'") = CountChar(s, "'") + CountChar(s, "<backtick>")

\* C12: the only backticks of a formatted payload are the two that delimit the
\* message segment; the sender, and a message that is not truncated, appear in it
\* with each backtick replaced by a single quote and every other character as
\* it was.
C12_NoBacktick ==
  Formatted =>
    LET p == event.content
        n == PyLen(event.sender)
    IN /\ CountChar(p, "<backtick>") = 2
       /\ Slice(Drop(p, BeforeMessage(n) - 1), 1) = <<[c |-> "<backtick>", n |-> 1]>>
       /\ Drop(p, PyLen(p) - 1) = <<[c |-> "<backtick>", n |-> 1]>>
       /\ QuotedFrom(SenderOf(p, n), event.sender)
       /\ PyLen(event.message) <= 1800 => QuotedFrom(SegmentOf(p, n), event.message)

\* the request of sender a`b with message x`y was formatted, enqueued, and is
\* being sent
C12_Witness ==
  /\ Formatted
  /\ CountChar(event.sender, "<backtick>") = 1
  /\ CountChar(event.message, "<backtick>") = 1
  /\ Len(event.message) = 3
  /\ resp.status = "queued"
  /\ content = resp.id
  /\ pc = "SENDING"

\* the retry delay by the stated precedence: a Retry-After that parses as a
\* non-negative number, else the body's retry_after, else 1.0 s
StatedDelay(a) ==
  LET h == PyFloat(a.header)
      b == PyFloat(a.bodyRetry)
  IN IF a.header # "<absent>" /\ h.ok /\ h.val.k = "num" /\ h.val.v >= 0 THEN h.val.v
     ELSE IF a.bodyKind = "object" /\ a.bodyRetry # "<absent>" /\ b.ok /\ b.val.k = "num"
     THEN b.val.v
     ELSE 1000

AtLeast(floor, v) == IF v > floor THEN v ELSE floor

\* C13: on a 429 the delay is the Retry-After header when present and a
\* non-negative number, otherwise (absent, unparseable or negative) the body's
\* retry_after, otherwise 1.0 s; the sleep before the retry is max(delay, 0.5) s.
C13_RetryDelay == pc = "RATE_LIMITED" => slept = AtLeast(500, StatedDelay(answer))

\* the precedence as coded: a Retry-After that float() accepts is the delay,
\* negative or not, and the body is read only when there is none
DelayAsCoded ==
  pc = "RATE_LIMITED" =>
    LET h == PyFloat(answer.header)
    IN IF answer.header # "<absent>" /\ h.ok
       THEN slept = AtLeast(500, h.val.v)
       ELSE slept = AtLeast(500, StatedDelay(answer))

\* a negative Retry-After was slept as 0.5 s although the body asked for 2 s
DelayWitness ==
  /\ pc = "RATE_LIMITED"
  /\ answer.header = "-1"
  /\ answer.bodyKind = "object"
  /\ answer.bodyRetry = "2"

\* the pacing sleep for a reset-after hint: the hint when it is a number above
\* 0.45 s, else 0.45 s
StatedSpacing(text) ==
  LET r == PyFloat(text)
  IN IF text # "<absent>" /\ r.ok /\ r.val.k = "num" THEN AtLeast(450, r.val.v)
     ELSE IF text # "<absent>" /\ r.ok /\ r.val.k = "inf" THEN 0 - 1
     ELSE 450

\* C14: after every send answered 2xx the worker sleeps max(0.45, hint) s (0.45 s
\* for a missing, unparseable, zero or negative hint), never the backoff delay,
\* then has backoff 0 and is back in its loop.
C14_Pacing ==
  /\ (Sleeping /\ last >= 200 /\ last < 300)
       => (pc = "PACING" /\ (StatedSpacing(answer.reset) >= 0
                               => slept = StatedSpacing(answer.reset)))
  /\ (pc \in {"loop", "WAITING"} /\ last >= 200 /\ last < 300) => backoff = 0

\* the pacing as coded: whenever the pacing sleep starts it lasts
\* max(0.45, hint), and backoff is 0 once it is over
PacingAsCoded ==
  /\ [](pc = "PACING" => slept = StatedSpacing(answer.reset))
  /\ [][(pc = "PACING" /\ pc' # pc) => (pc' = "loop" /\ backoff' = 0)]_vars

\* a hint of 2 s is being slept after a 204
PacingWitness == pc = "PACING" /\ last = 204 /\ answer.reset = "2" /\ slept = 2000

\* C15: a 429 followed by a retry answered 2xx is a success (pacing sleep, backoff
\* not grown); backoff grows after a 429 only when the retry was made and failed.
C15_RetrySuccess ==
  /\ (first = 429 /\ attempt = 2 /\ last >= 200 /\ last < 300 /\ Sleeping)
       => (pc = "PACING" /\ raised = 0)
  /\ (first = 429 /\ pc = "BACKOFF") => (attempt = 2 /\ ~(last >= 200 /\ last < 300))

\* C16: the channel never holds more than its capacity, and every payload in it
\* was enqueued by a request answered "queued", once, and has not been dequeued.
C16_ChannelBounded ==
  /\ [](Len(queue) <= MaxQueue)
  /\ [](\A i \in 1..Len(queue) :
          /\ Count(enq, queue[i]) = 1
          /\ queue[i] \notin Range(deq)
          /\ \A j \in 1..Len(queue) : queue[j] = queue[i] => j = i)
  /\ [][enq' # enq
          => /\ resp'.status = "queued"
             /\ enq' = Append(enq, resp'.id)
             /\ queue' = Append(queue, resp'.id)]_vars

\* the channel is full again after a dequeue, a request was turned away, and the
\* worker has a send in flight
C16_Witness ==
  /\ Len(queue) = MaxQueue
  /\ Len(deq) >= 1
  /\ resp.detail = "Queue full! Message discarded."
  /\ pc = "SENDING"

\* C17: the destination of a payload is resolved when the worker sends it, not
\* when it was admitted, and the 429 retry goes to the URL of the first attempt
\* whatever was configured during the retry sleep.
C17_ResolvedAtSend ==
  /\ [](pc = "SENDING" => (wire.p = content /\ wire.to = url))
  /\ [][(pc = "DEQUEUED" /\ pc' = "SENDING")
          => (wire'.to = ResolvedUrl /\ url' = ResolvedUrl)]_vars
  /\ [][(pc = "RATE_LIMITED" /\ pc' = "SENDING")
          => (wire'.to = url /\ url' = url /\ wire'.p = content)]_vars

\* a payload admitted under one destination was first sent to the other, and its
\* retry goes there too although the first destination is configured again
C17_Witness ==
  /\ pc = "SENDING"
  /\ attempt = 2
  /\ content = resp.id
  /\ event.dest = UrlA
  /\ wire.to = UrlB
  /\ wire.now = UrlA

SpacingAsCoded ==
  /\ []((wire # NoWire) <=> (pc = "SENDING"))
  /\ [](pc = "RATE_LIMITED" => slept >= 500)
  /\ [](pc = "PACING" => slept >= 450)
  /\ [](pc = "BACKOFF" => slept >= 1000)
  /\ [][posts' # posts
          => /\ wire = NoWire
             /\ pc \in {"DEQUEUED", "RATE_LIMITED"}
             /\ posts # <<>> => slept >= 450]_vars

\* a second payload is sent after the pacing sleep of the first
SpacingWitness ==
  /\ Len(posts) = 2
  /\ posts[1].p # posts[2].p
  /\ pc = "SENDING"
  /\ slept = 450

\* C19: after the flag was set False with the worker in its loop, the worker
\* dequeues at most one more payload and then stops; once it has stopped nothing
\* is dequeued or sent, and what is left in the channel was never sent.
C19_StopDrains ==
  /\ [](afterStop <= 1)
  /\ [](pc = "STOPPED" => \A x \in Range(queue) : x \notin Range(PostedPayloads))
  /\ [][pc = "STOPPED" => (pc' = "STOPPED" /\ posts' = posts /\ deq' = deq)]_vars

\* the worker stopped after sending one more payload, leaving one in the channel
C19_Witness ==
  /\ pc = "STOPPED"
  /\ afterStop = 1
  /\ queue # <<>>
  /\ Len(posts) >= 2

\* C20: unfinished_tasks equals the payloads in the channel plus the one the
\* worker holds, and is never negative; task_done runs once per dequeued
\* payload, at the end of its cycle, and not after an empty timeout.
C20_TaskDoneBalanced ==
  /\ [](unfinished = Len(queue) + (IF content # 0 THEN 1 ELSE 0))
  /\ [](unfinished >= 0)
  /\ [][unfinished' < unfinished
          => /\ unfinished' = unfinished - 1
             /\ content # 0
             /\ content' = 0
             /\ pc \in {"PACING", "BACKOFF"}]_vars
  /\ [][(pc = "WAITING" /\ queue = <<>> /\ pc' # pc) => unfinished' = unfinished]_vars
  /\ [][(content # 0 /\ content' = 0) => unfinished' = unfinished - 1]_vars

\* the channel is full and the worker sleeps off a failure of the payload it holds
C20_Witness ==
  /\ unfinished = MaxQueue + 1
  /\ pc = "BACKOFF"
  /\ content # 0
  /\ Len(deq) >= 2

====
